---- MODULE Spec2Model ----
(***************************************************************************)
(* PDM telemetry: the producer (stm32_sim.py), the consumer and its REST   *)
(* handlers (usb_reader.py) and the scenarios (test_cases.py).             *)
(*                                                                         *)
(* A Python float is modelled as a fixed-point number with four decimals:  *)
(* the integer x stands for x / 10000 (138000 is 13.8 V, 52000 is 5.2 A,   *)
(* 450000 is 45.0 degrees).  Time is in milliseconds.  A byte string is a  *)
(* sequence of numbers in 0..255; packet[k] of the code is pkt[k + 1].     *)
(***************************************************************************)
EXTENDS Integers, Sequences, FiniteSets, TLC

VARIABLES
    \* ---- frame codec harness (SpecCodec)
    samples,        \* the eight channel samples handed to _make_packet
    pkt,            \* the byte string under test / the frame last written to the port
    pktFrom,        \* "none" | "encoder" | "corrupt": where pkt comes from
    cdPc,           \* "input" | "encoded" | "raised" | "corrupted" | "accepted" | "rejected"
    \* ---- consumer process (usb_reader.py)
    pdm_data,       \* the global store
    channel_enabled,\* the enable mask
    stamp,          \* how many timestamps datetime.now() has handed out
    \* ---- producer process (stm32_sim.py)
    channels_state, \* self.channels_state
    voltage,        \* self.voltage
    active_scenario,\* self.active_scenario: 0 for None, else the scenario's id
    scenario_started_at,
    scenario_info,  \* self.scenario_info
    simPc,          \* where run() stands in its tick
    simTrig,        \* scenario_id of _load_trigger / _maybe_start_scenario
    tickMask,       \* the mask _apply_channel_controls read on this tick
    packet_count,
    now,            \* time.time(), in milliseconds
    seed,           \* the state the random module was seeded with
    \* ---- the files both processes share
    trigger_file,   \* scenario_trigger.json
    ctrl_file,      \* channel_controls.json
    status_file,    \* scenario_status.json
    nTriggers,      \* trigger requests served so far
    nSets,          \* set-channel requests served so far
    \* ---- the REST handler in flight (usb_reader.py)
    reqPc,          \* "idle", or where the handler stands
    reqArg,         \* its arguments
    \* ---- the consumer's background thread and the query handlers
    rd,             \* read_loop and parse_packet: position and locals
    wrTick,         \* per field of the store, the update that last wrote it
    resp,           \* the response the step just taken returned, if it was a query
    \* ---- the scenario engine inside the consumer (PDM_MOCK=1)
    mock,           \* mock_current_scenario, mock_scenario_started_at, mock_scenario_status
    \* ---- calls of the scenario functions (test_cases.py)
    scn             \* the scenario, the elapsed time and what the calls returned

codecVars == <<samples, pkt, pktFrom, cdPc>>
storeVars == <<pdm_data, channel_enabled, stamp>>
simVars == <<channels_state, voltage, active_scenario, scenario_started_at,
             scenario_info, simPc, simTrig, tickMask, packet_count, now, seed>>
fileVars == <<trigger_file, ctrl_file, status_file, nTriggers, nSets>>
reqVars == <<reqPc, reqArg>>
readerVars == <<rd, wrTick, resp>>
scenarioVars == <<mock, scn>>
vars == <<samples, pkt, pktFrom, cdPc, pdm_data, channel_enabled, stamp,
          channels_state, voltage, active_scenario, scenario_started_at,
          scenario_info, simPc, simTrig, tickMask, packet_count, now, seed,
          trigger_file, ctrl_file, status_file, nTriggers, nSets,
          reqPc, reqArg, rd, wrTick, resp, mock, scn>>

(***************************************************************************)
(* Program constants                                                       *)
(***************************************************************************)
NumChannels == 8
PacketLen == 58
SyncByte == 170
RecordLen == 7

Channels == 0 .. (NumChannels - 1)
Byte == 0 .. 255
\* the timestamp of a store no update has completed on; datetime.now() hands
\* out 1, 2, ...
None == 0

(***************************************************************************)
(* Integer helpers                                                         *)
(***************************************************************************)
\* Python's int(x * k) for a float x: truncation toward zero.  x is fixed
\* point, d the number of fixed-point units per unit of the result.
IntTrunc(x, d) == IF x >= 0 THEN x \div d ELSE -((-x) \div d)

Abs(x) == IF x >= 0 THEN x ELSE -x

\* x & (1 << n) as a truth value
BitSet(x, n) == (x \div (2 ^ n)) % 2 = 1

\* x ^ y on bytes
XorBits(x, y) ==
    LET bit(n) == IF BitSet(x, n) # BitSet(y, n) THEN 2 ^ n ELSE 0
    IN  bit(0) + bit(1) + bit(2) + bit(3) + bit(4) + bit(5) + bit(6) + bit(7)

\* a ^ b, each operand evaluated once
BitXor(a, b) == CHOOSE r \in {XorBits(x, y) : x \in {a}, y \in {b}} : TRUE

RECURSIVE XorRange(_, _, _)
\* bytes[lo] ^ ... ^ bytes[hi], halving the range (a fold from the left nests
\* one level per byte; ^ is associative, so the value is the same).  The
\* bounds of each half are fixed before the halves are folded.
XorRange(bytes, lo, hi) ==
    IF lo > hi THEN 0
    ELSE IF lo = hi THEN bytes[lo]
    ELSE CHOOSE r \in {BitXor(XorRange(bytes, l, mid), XorRange(bytes, mid + 1, h)) :
                          l \in {lo}, mid \in {(lo + hi) \div 2}, h \in {hi}} : TRUE

\* checksum = 0; for b in bytes: checksum ^= b
XorBytes(bytes) == XorRange(bytes, 1, Len(bytes))

(***************************************************************************)
(* _make_packet (stm32_sim.py)                                             *)
(***************************************************************************)
\* int(ch["voltage"] * 1000), int(ch["current"] * 1000), int(ch["temp"] * 10)
VoltageMv(ch) == IntTrunc(ch.voltage, 10)
CurrentMa(ch) == IntTrunc(ch.current, 10)
TempDec(ch) == IntTrunc(ch.temp, 1000)

\* struct.pack("<HHhB", ...) raises struct.error unless every argument is in
\* the range of its format
PackFits(ch) ==
    /\ VoltageMv(ch) \in 0 .. 65535
    /\ CurrentMa(ch) \in 0 .. 65535
    /\ TempDec(ch) \in -32768 .. 32767
    /\ ch.status \in 0 .. 255

\* mutant of Le16: the two bytes in big-endian order
Le16BigEndian(v) == LET u == v % 65536 IN <<u \div 256, u % 256>>

\* the two bytes of a 16-bit little-endian field; a negative h is two's complement
Le16(v) == LET u == v % 65536 IN <<u % 256, u \div 256>>

PackRecord(ch) ==
    Le16(VoltageMv(ch)) \o Le16(CurrentMa(ch)) \o Le16(TempDec(ch)) \o <<ch.status>>

RECURSIVE PackRecords(_, _)
\* the records of channels 0 .. n-1, in order
PackRecords(cs, n) ==
    IF n = 0 THEN <<>> ELSE PackRecords(cs, n - 1) \o PackRecord(cs[n - 1])

\* whether _make_packet raises (struct.error propagates: nothing catches it)
MakePacketRaises(cs) == \E i \in Channels : ~PackFits(cs[i])

\* the bytes _make_packet returns when it does not raise
MakePacket(cs) ==
    LET body == <<SyncByte>> \o PackRecords(cs, NumChannels)
    IN  Append(body, XorBytes(body))

(***************************************************************************)
(* parse_packet (usb_reader.py)                                            *)
(***************************************************************************)
\* mutant of CheckPacket: the sync byte is not looked at
CheckPacketNoSync(packet) ==
    IF Len(packet) # PacketLen THEN "bad_length"
    ELSE IF XorBytes(SubSeq(packet, 1, Len(packet) - 1)) # packet[Len(packet)]
         THEN "bad_checksum"
    ELSE "ok"

\* mutant of CheckPacket: the checksum is not compared
CheckPacketNoChecksum(packet) ==
    IF Len(packet) # PacketLen THEN "bad_length"
    ELSE IF packet[1] # SyncByte THEN "bad_sync"
    ELSE "ok"

\* mutant of CheckPacket: the checksum is compared before the first byte
CheckPacketChecksumFirst(packet) ==
    IF Len(packet) # PacketLen THEN "bad_length"
    ELSE IF XorBytes(SubSeq(packet, 1, Len(packet) - 1)) # packet[Len(packet)]
         THEN "bad_checksum"
    ELSE IF packet[1] # SyncByte THEN "bad_sync"
    ELSE "ok"

\* the three guards, in the code's order
CheckPacket(packet) ==
    IF Len(packet) # PacketLen THEN "bad_length"
    ELSE IF packet[1] # SyncByte THEN "bad_sync"
    ELSE IF XorBytes(SubSeq(packet, 1, Len(packet) - 1)) # packet[Len(packet)]
         THEN "bad_checksum"
    ELSE "ok"

\* struct.unpack_from('<HHhB', packet, offset) for channel i, offset = 1 + 7 i
U16At(packet, off) == packet[off + 1] + 256 * packet[off + 2]
I16At(packet, off) ==
    LET u == U16At(packet, off) IN IF u >= 32768 THEN u - 65536 ELSE u

UnpackRecord(packet, i) ==
    LET off == 1 + RecordLen * i
    IN  [voltage_mv |-> U16At(packet, off),
         current_ma |-> U16At(packet, off + 2),
         temp_dec |-> I16At(packet, off + 4),
         status_byte |-> packet[off + 7]]

\* round(m / 1000.0, 2) for a non-negative number m of thousandths, as fixed
\* point.  At a decimal tie (m ends in 5) Python rounds the binary float
\* nearest m / 1000, which lies above the tie for half of the 16-bit values
\* and below it for the other half: the direction is the input up.
Round2(m, up) ==
    LET q == m \div 10
        r == m % 10
    IN  100 * (IF r < 5 THEN q ELSE IF r > 5 THEN q + 1 ELSE IF up THEN q + 1 ELSE q)

\* round(temp_dec / 10.0, 1): exact for every 16-bit temp_dec
Round1(t) == 1000 * t

\* mutant of OverrideOn: the enable mask is not consulted
OverrideOnIgnoresMask(rec, enabled) == BitSet(rec.status_byte, 0)

\* lines 132-137: the enable override
OverrideOn(rec, enabled) == IF ~enabled THEN FALSE ELSE BitSet(rec.status_byte, 0)
OverrideCurrentMa(rec, enabled) == IF ~enabled THEN 0 ELSE rec.current_ma

\* lines 146-156: the record written for one channel
ChannelUpdate(rec, on_flag, current_ma, up) ==
    [voltage |-> Round2(rec.voltage_mv, up),
     current |-> Round2(current_ma, up),
     temperature |-> Round1(rec.temp_dec),
     on |-> on_flag,
     fault |-> BitSet(rec.status_byte, 1),
     over_current |-> BitSet(rec.status_byte, 2),
     over_temp |-> BitSet(rec.status_byte, 3)]

RECURSIVE SumCurrentMa(_, _, _)
\* total_current after channels 0 .. n-1, in thousandths
SumCurrentMa(packet, enabled, n) ==
    IF n = 0 THEN 0
    ELSE SumCurrentMa(packet, enabled, n - 1)
         + OverrideCurrentMa(UnpackRecord(packet, n - 1), enabled[n - 1])

\* the store after a whole parse_packet call that passed the guards
ParsedStore(packet, enabled, ts, up) ==
    LET chans == [i \in Channels |->
                    LET rec == UnpackRecord(packet, i)
                    IN  ChannelUpdate(rec, OverrideOn(rec, enabled[i]),
                                      OverrideCurrentMa(rec, enabled[i]), up)]
    IN  [timestamp |-> ts,
         system_voltage |-> chans[0].voltage,
         total_current |-> Round2(SumCurrentMa(packet, enabled, NumChannels), up),
         channels |-> chans]

\* pdm_data as the module creates it (lines 51-71)
InitStore ==
    [timestamp |-> None,
     system_voltage |-> 0,
     total_current |-> 0,
     channels |-> [i \in Channels |->
        [voltage |-> 0, current |-> 0, temperature |-> 0,
         on |-> FALSE, fault |-> FALSE, over_current |-> FALSE, over_temp |-> FALSE]]]

\* channel_enabled as the module creates it (line 76)
InitEnabled == [i \in Channels |-> TRUE]

(***************************************************************************)
(* The simulator's channel state at construction (stm32_sim.py 62-71)      *)
(***************************************************************************)
Sample(v, c, t, s) == [voltage |-> v, current |-> c, temp |-> t, status |-> s]

InitChannels ==
    [i \in Channels |->
        CASE i = 0 -> Sample(138000, 52000, 450000, 1)
          [] i = 1 -> Sample(138000, 35000, 380000, 1)
          [] i = 2 -> Sample(138000, 48000, 420000, 1)
          [] i = 3 -> Sample(137000, 80000, 350000, 1)
          [] i = 4 -> Sample(138000, 12000, 320000, 1)
          [] i = 5 -> Sample(138000, 8000, 300000, 1)
          [] i = 6 -> Sample(138000, 21000, 350000, 1)
          [] OTHER -> Sample(137000, 0, 280000, 0)]

(***************************************************************************)
(* The scenarios (test_cases.py).  elapsed is in milliseconds.             *)
(***************************************************************************)
ScenarioIds == {1, 2}

\* TestScenario.duration, 5.0 s
Duration(id) == 5000

\* a TestScenario that does not override get_channel_states: the base class
\* raises NotImplementedError (test_cases.py lines 21-26)
BaseScenario == 9
GetChannelStatesRaises(id) == id = BaseScenario

ScenarioName(id) ==
    IF id = 1 THEN "Cooling Fan Failure"
    ELSE IF id = 2 THEN "Engine Start Sequence" ELSE "Base scenario"

\* self.events, in list order
Events(id) ==
    IF id = 1
    THEN << <<0, "Normal operation - all systems healthy">>,
            <<2000, "Bump! Fan connector loosened">>,
            <<2500, "Fan power dropping...">>,
            <<3000, "Fan stopped - fault detected">>,
            <<3500, "Temperature rising rapidly">>,
            <<4000, "Warning: High temperature detected">>,
            <<4500, "System continues running on reduced cooling">> >>
    ELSE << <<0, "Pre-start: Dashboard and sensors only">>,
            <<1000, "Starter motor engaged - cranking">>,
            <<1500, "High current draw - voltage dropping">>,
            <<2000, "Cranking continues...">>,
            <<2500, "Engine almost started...">>,
            <<3000, "Engine started! All systems online">>,
            <<3500, "Systems stabilizing">>,
            <<4000, "Normal operation restored">> >>

\* mutant of EventScan: an event is current only after its threshold
EventScanStrict(events, k, elapsed, current_event) ==
    LET passed == {j \in k .. Len(events) : elapsed > events[j][1]}
    IN  IF passed = {} THEN current_event
        ELSE events[CHOOSE j \in passed : \A m \in passed : m <= j][2]

RECURSIVE EventScan(_, _, _, _)
\* for event_time, message in self.events: if elapsed >= event_time: ...
EventScan(events, k, elapsed, current_event) ==
    IF k > Len(events) THEN current_event
    ELSE EventScan(events, k + 1, elapsed,
                   IF elapsed >= events[k][1] THEN events[k][2] ELSE current_event)

GetEventAtTime(id, elapsed) == EventScan(Events(id), 1, elapsed, "Normal operation")

\* CoolingFanFailure.get_channel_states
FanFailureStates(elapsed) ==
    LET base == InitChannels
        fan == IF elapsed < 2000 THEN base[3]
               ELSE IF elapsed < 2500
                    THEN [base[3] EXCEPT !.current = 80000 - 160 * (elapsed - 2000)]
               ELSE IF elapsed < 3000
                    THEN [base[3] EXCEPT !.current = 40000 - 80 * (elapsed - 2500)]
               ELSE [base[3] EXCEPT !.current = 0, !.status = 2]
        states == [base EXCEPT ![3] = fan]
        temp_increase == 50 * (elapsed - 3000)
    IN  IF elapsed >= 3000
        THEN [i \in Channels |->
                IF i < 7 THEN [states[i] EXCEPT !.temp = @ + temp_increase]
                ELSE states[i]]
        ELSE states

\* EngineStartSequence.get_channel_states
EngineStartStates(elapsed) ==
    LET base == [i \in Channels |->
                    CASE i = 4 -> Sample(138000, 12000, 250000, 1)
                      [] i = 5 -> Sample(138000, 8000, 250000, 1)
                      [] i = 6 -> Sample(138000, 21000, 250000, 1)
                      [] OTHER -> Sample(138000, 0, 250000, 0)]
        cranking == [i \in Channels |->
                        IF i = 7
                        THEN [base[i] EXCEPT !.status = 1,
                                             !.current = 1500000 + 100 * (elapsed - 1000),
                                             !.voltage = 138000 - 25000]
                        ELSE [base[i] EXCEPT !.voltage = 138000 - 25000]]
        started == [i \in Channels |->
                        CASE i = 0 -> Sample(138000, 52000, 300000, 1)
                          [] i = 1 -> Sample(138000, 35000, 280000, 1)
                          [] i = 2 -> Sample(138000, 48000, 320000, 1)
                          [] i = 7 -> [base[i] EXCEPT !.status = 0, !.current = 0,
                                                      !.voltage = 138000]
                          [] OTHER -> [base[i] EXCEPT !.voltage = 138000]]
    IN  IF elapsed >= 1000 /\ elapsed < 3000 THEN cranking
        ELSE IF elapsed >= 3000 THEN started
        ELSE base

\* mutant of GetChannelStates: the list handed out before is kept and the
\* statuses its holder wrote into it show in the next result
GetChannelStatesKeepsList(id, elapsed) ==
    LET fresh == IF id = 1 THEN FanFailureStates(elapsed) ELSE EngineStartStates(elapsed)
    IN  IF scn.pc \in {"mutated", "between"}
        THEN [i \in Channels |-> [fresh[i] EXCEPT !.status = scn.states[i].status]]
        ELSE fresh

GetChannelStates(id, elapsed) ==
    IF id = 1 THEN FanFailureStates(elapsed) ELSE EngineStartStates(elapsed)

(***************************************************************************)
(* The producer's tick (stm32_sim.py run and what it calls)                *)
(***************************************************************************)
\* A file: absent, or present with content that json.load accepts or not
\* (open(..., 'w') truncates the file before json.dump writes it).
NoFile == [exists |-> FALSE, readable |-> FALSE, content |-> 0]
EmptyFile == [exists |-> TRUE, readable |-> FALSE, content |-> 0]
FileWith(c) == [exists |-> TRUE, readable |-> TRUE, content |-> c]

\* The random module is a generator seeded once at start.  A seed fixes the
\* whole sequence of draws; the model has four sequences: every draw of a
\* tick at the high end of its interval (1) or at the low end (-1), the same
\* on all ticks (seeds 0, 1) or alternating from tick to tick (seeds 2, 3).
Seeds == {0, 1, 2, 3}
Draw(sd, tick) ==
    CASE sd = 0 -> 1
      [] sd = 1 -> -1
      [] sd = 2 -> IF tick % 2 = 0 THEN 1 ELSE -1
      [] OTHER -> IF tick % 2 = 0 THEN -1 ELSE 1

\* no request in flight
NoArg == [channel_id |-> 0, enabled |-> FALSE, scenario_id |-> 0, payload |-> "none"]

\* ScenarioInfo() as the dataclass creates it
IdleInfo ==
    [name |-> "Normal Operation", elapsed |-> 0, status |-> "idle",
     current_event |-> "Normal operation"]

\* no mask read yet on this tick
NoMask == [applied |-> FALSE, channels |-> InitEnabled]

\* read_loop before its first serial.read: no packet, no locals, nothing
\* counted (line 176)
RdIdle ==
    [pc |-> "read", packet |-> <<>>, i |-> 0, on_flag |-> FALSE, current |-> 0,
     total_current |-> 0, packet_count |-> 0, reads |-> 0, result |-> "none"]

\* no field of the store has been written by an update yet
NoTicks ==
    [channels |-> [i \in Channels |-> 0],
     system_voltage |-> 0, total_current |-> 0, timestamp |-> 0]

\* the step was not a query
NoResp == [kind |-> "none", body |-> <<>>, ticks |-> {}]

\* the mock engine's globals as the module creates them (lines 77-85; a
\* scenario is 0 for None, else its id) and _mock_loop before its first pass
MockIdle ==
    [current_scenario |-> 0, started_at |-> 0, status |-> IdleInfo,
     pc |-> "drive", i |-> 0, total_current |-> 0,
     driven |-> FALSE, scenario_states |-> InitChannels, ticks |-> 0]

\* no scenario function called yet
ScnIdle ==
    [pc |-> "idle", id |-> 0, elapsed |-> 0, states |-> InitChannels,
     first |-> InitChannels, event |-> "Normal operation", tied |-> FALSE]

\* both processes and the files at construction, before a thread is started
BeforeThreads ==
    /\ channels_state = InitChannels
    /\ voltage = 138000
    /\ active_scenario = 0
    /\ scenario_started_at = 0
    /\ scenario_info = IdleInfo
    /\ simPc = "check_trigger"
    /\ simTrig = 0
    /\ tickMask = NoMask
    /\ packet_count = 0
    /\ now = 0
    /\ trigger_file = NoFile
    /\ ctrl_file = NoFile
    /\ status_file = NoFile
    /\ nTriggers = 0
    /\ nSets = 0
    /\ reqPc = "idle"
    /\ reqArg = NoArg
    /\ wrTick = NoTicks
    /\ resp = NoResp
    /\ scn = ScnIdle

\* both processes and the files at construction, before any loop starts
SimIdle ==
    /\ BeforeThreads
    /\ rd = RdIdle
    /\ mock = MockIdle

\* mutant of UpdateScenarioState: a scenario that ran out goes straight to idle
UpdateScenarioStateSkipsComplete(active, info, cs, started_at, t) ==
    IF active = 0 \/ t - started_at >= Duration(active)
    THEN <<0, [info EXCEPT !.status = "idle", !.elapsed = 0,
                           !.current_event = "Normal operation"], cs>>
    ELSE <<active,
           [info EXCEPT !.elapsed = t - started_at, !.status = "active",
                        !.current_event = GetEventAtTime(active, t - started_at)],
           GetChannelStates(active, t - started_at)>>

\* _update_scenario_state, lines 116-142; the result is the new
\* <<active_scenario, scenario_info, channels_state>>
UpdateScenarioState(active, info, cs, started_at, t) ==
    IF active = 0
    THEN <<0, [info EXCEPT !.status = "idle", !.elapsed = 0,
                           !.current_event = "Normal operation"], cs>>
    ELSE LET elapsed == t - started_at
         IN  IF elapsed >= Duration(active)
             THEN <<0, [info EXCEPT !.elapsed = elapsed, !.status = "complete",
                                    !.current_event = "Scenario complete"], cs>>
             ELSE IF GetChannelStatesRaises(active)
             THEN <<0, [info EXCEPT !.elapsed = elapsed, !.status = "idle"], cs>>
             ELSE <<active,
                    [info EXCEPT !.elapsed = elapsed, !.status = "active",
                                 !.current_event = GetEventAtTime(active, elapsed)],
                    GetChannelStates(active, elapsed)>>

\* _apply_channel_controls, lines 189-194: every status becomes 1 or 0
ApplyMask(cs, mask) ==
    [i \in Channels |-> [cs[i] EXCEPT !.status = IF mask[i] THEN 1 ELSE 0]]

Max(a, b) == IF a >= b THEN a ELSE b
Min(a, b) == IF a <= b THEN a ELSE b

\* the nominal currents of line 159
BaseCurrent(i) ==
    CASE i = 0 -> 52000 [] i = 1 -> 35000 [] i = 2 -> 48000 [] i = 3 -> 80000
      [] i = 4 -> 12000 [] i = 5 -> 8000 [] i = 6 -> 21000 [] OTHER -> 1000000

RECURSIVE SumTemp(_, _)
\* sum(c["temp"] for c in self.channels_state), over channels 0 .. n-1
SumTemp(cs, n) == IF n = 0 THEN 0 ELSE SumTemp(cs, n - 1) + cs[n - 1].temp

\* one pass of the loop body of _update_sensors (lines 153-176) for channel i.
\* v is self.voltage after its step; j in {-1, 1} stands for the random
\* draws, each taken at the low or the high end of its interval.
UpdateChannel(cs, i, v, j) ==
    LET ch == cs[i]
        is_on == BitSet(ch.status, 0)
        current == IF is_on
                   THEN IF i = 7 THEN 1000000 + j * 200000
                        ELSE Max(5000, BaseCurrent(i) + j * 3000)
                   ELSE 0
        target == IF is_on THEN 250000 + (current * 15) \div 10 ELSE 250000
        moved == ch.temp + IntTrunc(target - ch.temp, IF is_on THEN 20 ELSE 50)
        temp == Max(200000, Min(1000000, moved))
        upd == [ch EXCEPT !.voltage = v + j * 1000, !.current = current, !.temp = temp]
        cs1 == [cs EXCEPT ![i] = upd]
        sum_temp == SumTemp(cs1, NumChannels)
        status == IF i # 3 THEN upd.status
                  ELSE IF sum_temp > 8 * 400000 /\ ~is_on THEN 1
                  ELSE IF sum_temp < 8 * 350000 /\ is_on THEN 0
                  ELSE upd.status
    IN  [cs1 EXCEPT ![i].status = status]

RECURSIVE UpdateSensors(_, _, _, _)
\* for i, ch in enumerate(self.channels_state), channels 0 .. n-1
UpdateSensors(cs, n, v, j) ==
    IF n = 0 THEN cs ELSE UpdateChannel(UpdateSensors(cs, n - 1, v, j), n - 1, v, j)

\* self.voltage after lines 149-150
StepVoltage(v, j) == Max(125000, Min(145000, v + j * 500))

\* round(x, 2) of a non-negative fixed-point x (see Round2 for the tie)
RoundFx2(x, up) ==
    LET q == x \div 100
        r == x % 100
    IN  100 * (IF r < 50 THEN q ELSE IF r > 50 THEN q + 1 ELSE IF up THEN q + 1 ELSE q)

RECURSIVE SumCurrent(_, _)
SumCurrent(cs, n) == IF n = 0 THEN 0 ELSE SumCurrent(cs, n - 1) + cs[n - 1].current

\* the JSON object of _write_status_file
StatusMessage(info, cs, up) ==
    [name |-> info.name,
     elapsed |-> info.elapsed,
     status |-> info.status,
     current_event |-> info.current_event,
     system_voltage |-> RoundFx2(cs[0].voltage, up),
     total_current |-> RoundFx2(SumCurrent(cs, NumChannels), up)]

(***************************************************************************)
(* SpecCodec: _make_packet and parse_packet as pure functions on bounded   *)
(* inputs.  One channel (the probe) takes a sample from the probe sets,    *)
(* the others keep the simulator's initial values.                         *)
(***************************************************************************)
ProbeVoltages == {0, 138004, 138050, 138056, 655359, 655360, -10}
ProbeCurrents == {0, 52004, 52050, 655359, 1500000}
ProbeTemps == {450000, 450999, -5, -31900, 32767999, 32768000, -32768000}
ProbeStatus == {0, 1, 2, 3, 9, 17, 255}
ProbeChannels == {0, 3, 7}

\* a probe varies the voltage, the temperature, or the current and the status
ProbeSamples ==
    {Sample(v, 52000, 450000, 1) : v \in ProbeVoltages}
    \cup {Sample(138000, 52000, t, 1) : t \in ProbeTemps}
    \cup {Sample(138000, c, 450000, s) : c \in ProbeCurrents, s \in ProbeStatus}

CodecInit ==
    /\ \E k \in ProbeChannels, p \in ProbeSamples, e \in BOOLEAN :
          /\ samples = [InitChannels EXCEPT ![k] = p]
          /\ channel_enabled = [InitEnabled EXCEPT ![k] = e]
    /\ pkt = <<>>
    /\ pktFrom = "none"
    /\ cdPc = "input"
    /\ pdm_data = InitStore
    /\ stamp = 0
    /\ seed = 0
    /\ SimIdle

\* pkt = self._make_packet(): the frame, or struct.error
CodecEncode ==
    /\ cdPc = "input"
    /\ IF MakePacketRaises(samples)
       THEN /\ cdPc' = "raised"
            /\ UNCHANGED <<pkt, pktFrom>>
       ELSE /\ cdPc' = "encoded"
            /\ pkt' = MakePacket(samples)
            /\ pktFrom' = "encoder"
    /\ UNCHANGED <<samples, pdm_data, channel_enabled, stamp, simVars, fileVars, reqVars>>
    /\ UNCHANGED readerVars
    /\ UNCHANGED scenarioVars

\* the byte stream damages the frame: a flipped bit, a lost or an extra byte,
\* or a changed byte with the checksum made to match again
FlipBit(bytes, pos, bit) ==
    [bytes EXCEPT ![pos] = BitXor(bytes[pos], 2 ^ bit)]
FixChecksum(bytes) ==
    [bytes EXCEPT ![Len(bytes)] = XorBytes(SubSeq(bytes, 1, Len(bytes) - 1))]
CorruptPositions == {1, 2, 4, 8, 57, 58}
CorruptBits == {0, 7}

CodecCorrupt ==
    /\ cdPc = "encoded"
    /\ \/ \E p \in CorruptPositions, b \in CorruptBits : pkt' = FlipBit(pkt, p, b)
       \/ \E p \in CorruptPositions \ {58}, b \in CorruptBits :
             pkt' = FixChecksum(FlipBit(pkt, p, b))
       \/ pkt' = SubSeq(pkt, 1, Len(pkt) - 1)
       \/ \E x \in {0, SyncByte} : pkt' = Append(pkt, x)
    /\ pktFrom' = "corrupt"
    /\ cdPc' = "corrupted"
    /\ UNCHANGED <<samples, pdm_data, channel_enabled, stamp, simVars, fileVars, reqVars>>
    /\ UNCHANGED readerVars
    /\ UNCHANGED scenarioVars

\* one whole call parse_packet(pkt), no other thread running
CodecParse ==
    /\ cdPc \in {"encoded", "corrupted"}
    /\ IF CheckPacket(pkt) = "ok"
       THEN /\ \E up \in BOOLEAN :
                 pdm_data' = ParsedStore(pkt, channel_enabled, stamp + 1, up)
            /\ stamp' = stamp + 1
            /\ cdPc' = "accepted"
       ELSE /\ cdPc' = "rejected"
            /\ UNCHANGED <<pdm_data, stamp>>
    /\ rd' = [rd EXCEPT !.result = CheckPacket(pkt)]
    /\ UNCHANGED <<samples, pkt, pktFrom, channel_enabled, simVars, fileVars, reqVars>>
    /\ UNCHANGED <<wrTick, resp>>
    /\ UNCHANGED scenarioVars

CodecNext == CodecEncode \/ CodecCorrupt \/ CodecParse

SpecCodec == CodecInit /\ [][CodecNext]_vars

(***************************************************************************)
(* SpecSim: the producer's loop and the control surface writing the        *)
(* trigger and control files from the other process.  A tick is cut where  *)
(* it touches a file the other process writes or reads; the statements in  *)
(* between touch only the producer's own memory and form one action.       *)
(***************************************************************************)
MaxTicks == 7
MaxTriggers == 1
MaxSets == 1
\* a tick's length: time.sleep(0.1) plus whatever the tick itself took
TickSteps == {1000}
\* the channels the set-channel requests of the model address
SetChannels == {3, 7}

SimInit ==
    /\ SimIdle
    /\ seed \in Seeds
    /\ samples = InitChannels
    /\ pkt = <<>>
    /\ pktFrom = "none"
    /\ cdPc = "input"
    /\ pdm_data = InitStore
    /\ channel_enabled = InitEnabled
    /\ stamp = 0

\* mutant of MaybeStartScenario: an id get_scenario does not know starts the
\* first registered scenario
MaybeStartScenarioDefaultsToFirst(trig, active, started_at, info, t) ==
    IF trig # 0
    THEN LET id == IF trig \in ScenarioIds THEN trig ELSE 1
         IN  <<id, t, [name |-> ScenarioName(id), elapsed |-> 0,
                       status |-> "active", current_event |-> "Starting"]>>
    ELSE <<active, started_at, info>>

\* _maybe_start_scenario after _load_trigger returned trig (0 for None):
\* the scenario, its start time and its info as lines 102-113 leave them
MaybeStartScenario(trig, active, started_at, info, t) ==
    IF trig \in ScenarioIds
    THEN <<trig, t, [name |-> ScenarioName(trig), elapsed |-> 0,
                     status |-> "active", current_event |-> "Starting"]>>
    ELSE <<active, started_at, info>>

\* the part of a tick between the trigger file and the control file:
\* the rest of _maybe_start_scenario, then _update_scenario_state
SimStartAndAdvance(trig) ==
    LET s == MaybeStartScenario(trig, active_scenario, scenario_started_at,
                                scenario_info, now)
        r == UpdateScenarioState(s[1], s[3], channels_state, s[2], now)
    IN  /\ scenario_started_at' = s[2]
        /\ active_scenario' = r[1]
        /\ scenario_info' = r[2]
        /\ channels_state' = r[3]
        /\ simPc' = "controls"

\* _load_trigger, line 80: os.path.exists(TRIGGER_FILE); without a file the
\* tick goes on to _update_scenario_state
SimCheckTrigger ==
    /\ simPc = "check_trigger"
    /\ packet_count < MaxTicks
    /\ tickMask' = NoMask
    /\ IF trigger_file.exists
       THEN /\ simPc' = "read_trigger"
            /\ UNCHANGED <<channels_state, active_scenario, scenario_started_at,
                           scenario_info>>
       ELSE SimStartAndAdvance(0)
    /\ UNCHANGED <<voltage, simTrig, packet_count, now, seed>>
    /\ UNCHANGED <<codecVars, storeVars, fileVars, reqVars>>
    /\ UNCHANGED readerVars
    /\ UNCHANGED scenarioVars

\* _load_trigger, lines 83-89: json.load and int(), or the except branch
SimReadTrigger ==
    /\ simPc = "read_trigger"
    /\ simTrig' = IF trigger_file.exists /\ trigger_file.readable
                  THEN trigger_file.content ELSE 0
    /\ simPc' = "remove_trigger"
    /\ UNCHANGED <<channels_state, voltage, active_scenario, scenario_started_at,
                   scenario_info, tickMask, packet_count, now, seed>>
    /\ UNCHANGED <<codecVars, storeVars, fileVars, reqVars>>
    /\ UNCHANGED readerVars
    /\ UNCHANGED scenarioVars

\* _load_trigger, lines 90-95: os.remove(TRIGGER_FILE); then the tick goes on
\* with the scenario id that was read
SimRemoveTrigger ==
    /\ simPc = "remove_trigger"
    /\ trigger_file' = NoFile
    /\ SimStartAndAdvance(simTrig)
    /\ simTrig' = 0
    /\ UNCHANGED <<voltage, tickMask, packet_count, now, seed>>
    /\ UNCHANGED <<ctrl_file, status_file, nTriggers, nSets>>
    /\ UNCHANGED <<codecVars, storeVars, reqVars>>
    /\ UNCHANGED readerVars
    /\ UNCHANGED scenarioVars

\* _apply_channel_controls: no file, a file json.load rejects, or the mask
ApplyChannelControls(cs, file) ==
    IF file.exists /\ file.readable THEN ApplyMask(cs, file.content) ELSE cs

\* run(), lines 262-268: _apply_channel_controls reads the control file, then
\* _update_sensors, _make_packet, ser.write and packet_count += 1.
\* struct.error is not caught by run(): the finally clause closes the port
\* and run() returns.
SimControlsAndSend ==
    /\ simPc = "controls"
    /\ tickMask' = IF ctrl_file.exists /\ ctrl_file.readable
                   THEN [applied |-> TRUE, channels |-> ctrl_file.content]
                   ELSE tickMask
    /\ LET j == Draw(seed, packet_count)
           masked == ApplyChannelControls(channels_state, ctrl_file)
           v == IF active_scenario # 0 THEN voltage ELSE StepVoltage(voltage, j)
           cs == IF active_scenario # 0 THEN masked
                 ELSE UpdateSensors(masked, NumChannels, v, j)
       IN  /\ voltage' = v
           /\ channels_state' = cs
           /\ IF MakePacketRaises(cs)
              THEN /\ simPc' = "aborted"
                   /\ UNCHANGED <<pkt, pktFrom, packet_count>>
              ELSE /\ pkt' = MakePacket(cs)
                   /\ pktFrom' = "encoder"
                   /\ packet_count' = packet_count + 1
                   /\ simPc' = "status"
    /\ UNCHANGED <<active_scenario, scenario_started_at, scenario_info,
                   simTrig, now, seed>>
    /\ UNCHANGED <<samples, cdPc, storeVars, fileVars, reqVars>>
    /\ UNCHANGED readerVars
    /\ UNCHANGED scenarioVars

\* _write_status_file, then time.sleep(0.1)
SimWriteStatus ==
    /\ simPc = "status"
    /\ \E up \in BOOLEAN :
          status_file' = FileWith(StatusMessage(scenario_info, channels_state, up))
    /\ \E step \in TickSteps : now' = now + step
    /\ simPc' = "check_trigger"
    /\ UNCHANGED <<channels_state, voltage, active_scenario, scenario_started_at,
                   scenario_info, simTrig, tickMask, packet_count, seed>>
    /\ UNCHANGED <<trigger_file, ctrl_file, nTriggers, nSets>>
    /\ UNCHANGED <<codecVars, storeVars, reqVars>>
    /\ UNCHANGED readerVars
    /\ UNCHANGED scenarioVars

\* trigger_scenario, non-mock branch, line 408: open(TRIGGER_FILE, 'w')
\* creates or truncates the file
ApiTriggerOpen ==
    /\ reqPc = "idle"
    /\ nTriggers < MaxTriggers
    /\ \E id \in ScenarioIds : reqArg' = [NoArg EXCEPT !.scenario_id = id]
    /\ trigger_file' = EmptyFile
    /\ reqPc' = "trigger_dump"
    /\ nTriggers' = nTriggers + 1
    /\ UNCHANGED <<ctrl_file, status_file, nSets>>
    /\ UNCHANGED <<codecVars, storeVars, simVars>>
    /\ UNCHANGED readerVars
    /\ UNCHANGED scenarioVars

\* trigger_scenario, line 409: json.dump and close.  If the producer removed
\* the file in between, the data goes to the unlinked file and is lost.
ApiTriggerDump ==
    /\ reqPc = "trigger_dump"
    /\ trigger_file' = IF trigger_file.exists THEN FileWith(reqArg.scenario_id)
                       ELSE trigger_file
    /\ reqPc' = "idle"
    /\ reqArg' = NoArg
    /\ UNCHANGED <<ctrl_file, status_file, nTriggers, nSets>>
    /\ UNCHANGED <<codecVars, storeVars, simVars>>
    /\ UNCHANGED readerVars
    /\ UNCHANGED scenarioVars

\* ids get_scenario does not know (SCENARIOS has the keys 1 and 2 only)
UnknownIds == {3}

\* A trigger message put into TRIGGER_FILE by another writer than
\* trigger_scenario, which refuses such ids: _load_trigger reads whatever
\* integer the file holds.
TriggerFileUnknownId ==
    /\ nTriggers < MaxTriggers
    /\ \E id \in UnknownIds : trigger_file' = FileWith(id)
    /\ nTriggers' = nTriggers + 1
    /\ UNCHANGED <<ctrl_file, status_file, nSets, reqPc, reqArg>>
    /\ UNCHANGED <<codecVars, storeVars, simVars>>
    /\ UNCHANGED readerVars
    /\ UNCHANGED scenarioVars

\* set_channel, lines 350-357, as the producer sees them: one step
\* (the store and the mask live in the consumer's memory), then line 366,
\* open(CTRL_FILE, 'w')
SetChannelMemory(data, channel_id, enabled) ==
    [data EXCEPT !.channels[channel_id].on = enabled,
                 !.channels[channel_id].current = IF enabled THEN @ ELSE 0]

ApiSetChannelOpen ==
    /\ reqPc = "idle"
    /\ nSets < MaxSets
    /\ \E c \in SetChannels, e \in BOOLEAN :
          /\ reqArg' = [NoArg EXCEPT !.channel_id = c, !.enabled = e]
          /\ pdm_data' = SetChannelMemory(pdm_data, c, e)
          /\ channel_enabled' = [channel_enabled EXCEPT ![c] = e]
    /\ ctrl_file' = EmptyFile
    /\ reqPc' = "ctrl_dump"
    /\ nSets' = nSets + 1
    /\ UNCHANGED <<trigger_file, status_file, nTriggers, stamp>>
    /\ UNCHANGED <<codecVars, simVars>>
    /\ UNCHANGED readerVars
    /\ UNCHANGED scenarioVars

\* set_channel, lines 367-370: json.dump of channel_enabled
ApiSetChannelDump ==
    /\ reqPc = "ctrl_dump"
    /\ ctrl_file' = FileWith(channel_enabled)
    /\ reqPc' = "idle"
    /\ reqArg' = NoArg
    /\ UNCHANGED <<trigger_file, status_file, nTriggers, nSets>>
    /\ UNCHANGED <<codecVars, storeVars, simVars>>
    /\ UNCHANGED readerVars
    /\ UNCHANGED scenarioVars

SimNext ==
    \/ SimCheckTrigger \/ SimReadTrigger \/ SimRemoveTrigger
    \/ SimControlsAndSend \/ SimWriteStatus
    \/ ApiTriggerOpen \/ ApiTriggerDump \/ ApiSetChannelOpen \/ ApiSetChannelDump
    \/ TriggerFileUnknownId

SpecSim == SimInit /\ [][SimNext]_vars

(***************************************************************************)
(* SpecReader: the consumer process.  The background thread runs read_loop *)
(* and parse_packet statement by statement; the REST handlers run in the   *)
(* server's threads in between.  Nothing in usb_reader.py takes a lock.    *)
(***************************************************************************)
MaxReads == 2

\* what one serial.read(58) can return: two frames of the producer, a short
\* read after the timeout, a frame with a wrong first byte (checksum
\* matching) and a frame with one bit flipped on the way
FrameNominal == MakePacket(InitChannels)
FrameFanFault == MakePacket(GetChannelStates(1, 3000))
ReaderInputs ==
    {FrameNominal, FrameFanFault,
     SubSeq(FrameNominal, 1, 40),
     FixChecksum([FrameFanFault EXCEPT ![1] = 85]),
     FlipBit(FrameFanFault, 9, 0)}

ReaderInit ==
    /\ SimIdle
    /\ seed = 0
    /\ samples = InitChannels
    /\ pkt = <<>>
    /\ pktFrom = "none"
    /\ cdPc = "input"
    /\ pdm_data = InitStore
    /\ channel_enabled = InitEnabled
    /\ stamp = 0

\* read_loop, line 179: packet = self.serial.read(58)
RdRead ==
    /\ rd.pc = "read"
    /\ rd.reads < MaxReads
    /\ \E f \in ReaderInputs :
          rd' = [rd EXCEPT !.pc = "check", !.packet = f, !.reads = @ + 1]
    /\ resp' = NoResp
    /\ UNCHANGED wrTick
    /\ UNCHANGED <<codecVars, storeVars, simVars, fileVars, reqVars>>
    /\ UNCHANGED scenarioVars

\* read_loop, lines 181-182, and the guards of parse_packet, lines 103-116:
\* a packet that fails one is dropped and the loop reads again.  (Back at
\* line 179 the locals of the last pass are dead; the model clears them.)
RdCheck ==
    /\ rd.pc = "check"
    /\ LET r == CheckPacket(rd.packet)
       IN  rd' = IF r = "ok"
                 THEN [rd EXCEPT !.pc = "unpack", !.i = 0, !.total_current = 0,
                                 !.result = r]
                 ELSE [rd EXCEPT !.pc = "read", !.packet = <<>>, !.result = r]
    /\ resp' = NoResp
    /\ UNCHANGED wrTick
    /\ UNCHANGED <<codecVars, storeVars, simVars, fileVars, reqVars>>
    /\ UNCHANGED scenarioVars

\* parse_packet, lines 124-138, for channel i: unpack the record, read
\* channel_enabled[i], add to total_current
RdUnpack ==
    /\ rd.pc = "unpack"
    /\ LET rec == UnpackRecord(rd.packet, rd.i)
           cur == OverrideCurrentMa(rec, channel_enabled[rd.i])
       IN  rd' = [rd EXCEPT !.pc = "update",
                            !.on_flag = OverrideOn(rec, channel_enabled[rd.i]),
                            !.current = cur,
                            !.total_current = @ + cur]
    /\ resp' = NoResp
    /\ UNCHANGED wrTick
    /\ UNCHANGED <<codecVars, storeVars, simVars, fileVars, reqVars>>
    /\ UNCHANGED scenarioVars

\* parse_packet, lines 146-156: pdm_data["channels"][i].update(...)
RdUpdate ==
    /\ rd.pc = "update"
    /\ \E up \in BOOLEAN :
          pdm_data' = [pdm_data EXCEPT !.channels[rd.i] =
                          ChannelUpdate(UnpackRecord(rd.packet, rd.i),
                                        rd.on_flag, rd.current, up)]
    /\ wrTick' = [wrTick EXCEPT !.channels[rd.i] = rd.packet_count + 1]
    /\ rd' = [rd EXCEPT !.i = @ + 1,
                        !.pc = IF rd.i + 1 < NumChannels THEN "unpack"
                               ELSE "system_voltage"]
    /\ resp' = NoResp
    /\ UNCHANGED <<channel_enabled, stamp>>
    /\ UNCHANGED <<codecVars, simVars, fileVars, reqVars>>
    /\ UNCHANGED scenarioVars

\* parse_packet, line 159: round() of a value with two decimals is that value
RdSystemVoltage ==
    /\ rd.pc = "system_voltage"
    /\ pdm_data' = [pdm_data EXCEPT !.system_voltage = pdm_data.channels[0].voltage]
    /\ wrTick' = [wrTick EXCEPT !.system_voltage = rd.packet_count + 1]
    /\ rd' = [rd EXCEPT !.pc = "total_current"]
    /\ resp' = NoResp
    /\ UNCHANGED <<channel_enabled, stamp>>
    /\ UNCHANGED <<codecVars, simVars, fileVars, reqVars>>
    /\ UNCHANGED scenarioVars

\* parse_packet, line 160
RdTotalCurrent ==
    /\ rd.pc = "total_current"
    /\ \E up \in BOOLEAN :
          pdm_data' = [pdm_data EXCEPT !.total_current = Round2(rd.total_current, up)]
    /\ wrTick' = [wrTick EXCEPT !.total_current = rd.packet_count + 1]
    /\ rd' = [rd EXCEPT !.pc = "timestamp"]
    /\ resp' = NoResp
    /\ UNCHANGED <<channel_enabled, stamp>>
    /\ UNCHANGED <<codecVars, simVars, fileVars, reqVars>>
    /\ UNCHANGED scenarioVars

\* parse_packet, lines 161-163, and read_loop, line 183: the timestamp,
\* return True, packet_count += 1
RdTimestamp ==
    /\ rd.pc = "timestamp"
    /\ pdm_data' = [pdm_data EXCEPT !.timestamp = stamp + 1]
    /\ stamp' = stamp + 1
    /\ wrTick' = [wrTick EXCEPT !.timestamp = rd.packet_count + 1]
    /\ rd' = [RdIdle EXCEPT !.packet_count = rd.packet_count + 1,
                            !.reads = rd.reads, !.result = rd.result]
    /\ resp' = NoResp
    /\ UNCHANGED channel_enabled
    /\ UNCHANGED <<codecVars, simVars, fileVars, reqVars>>
    /\ UNCHANGED scenarioVars

\* mutant of ValidChannel: the last channel is refused
ValidChannelBelowSeven(c) == 0 <= c /\ c < 7

\* 0 <= channel_id < 8 (get_channel line 323, set_channel line 344)
ValidChannel(c) == 0 <= c /\ c < 8

\* the channel ids of the requests: the route's <int:channel_id> hands the
\* handlers non-negative integers only
RequestChannels == SetChannels \cup {8}

\* the bodies of a set-channel request: {"enabled": true}, {"enabled": false},
\* a JSON object without the field, and no JSON body at all
Payloads == {"true", "false", "no_field", "no_body"}

\* enabled = bool(data.get('enabled')), line 348: a missing field is None
PayloadEnabled(p) == p = "true"

\* jsonify({"error": ...}), status
ErrorResp(code, c) ==
    [kind |-> "error", body |-> [code |-> code, channel_id |-> c], ticks |-> {}]

\* the updates that wrote the channel records / every field of the store
ChannelTicks == {wrTick.channels[i] : i \in Channels}
StoreTicks ==
    ChannelTicks \cup {wrTick.system_voltage, wrTick.total_current, wrTick.timestamp}

\* get_pdm_status: jsonify(pdm_data)
ApiGetPdmStatus ==
    /\ resp' = [kind |-> "status", body |-> pdm_data, ticks |-> StoreTicks]
    /\ UNCHANGED <<rd, wrTick>>
    /\ UNCHANGED <<codecVars, storeVars, simVars, fileVars, reqVars>>
    /\ UNCHANGED scenarioVars

\* get_all_channels
ApiGetAllChannels ==
    /\ resp' = [kind |-> "channels",
                body |-> [timestamp |-> pdm_data.timestamp,
                          channels |-> pdm_data.channels],
                ticks |-> ChannelTicks \cup {wrTick.timestamp}]
    /\ UNCHANGED <<rd, wrTick>>
    /\ UNCHANGED <<codecVars, storeVars, simVars, fileVars, reqVars>>
    /\ UNCHANGED scenarioVars

\* get_channel: the record of channel c, or the 400 of the else branch
GetChannel(c) ==
    IF ValidChannel(c)
    THEN [kind |-> "channel",
          body |-> [timestamp |-> pdm_data.timestamp,
                    channel |-> pdm_data.channels[c]],
          ticks |-> {wrTick.channels[c], wrTick.timestamp}]
    ELSE ErrorResp(400, c)

ApiGetChannel ==
    /\ \E c \in SetChannels : resp' = GetChannel(c)
    /\ UNCHANGED <<rd, wrTick>>
    /\ UNCHANGED <<codecVars, storeVars, simVars, fileVars, reqVars>>
    /\ UNCHANGED scenarioVars

\* get_system
ApiGetSystem ==
    /\ resp' = [kind |-> "system",
                body |-> [timestamp |-> pdm_data.timestamp,
                          system_voltage |-> pdm_data.system_voltage,
                          total_current |-> pdm_data.total_current,
                          active_channels |->
                              Cardinality({i \in Channels : pdm_data.channels[i].on})],
                ticks |-> StoreTicks]
    /\ UNCHANGED <<rd, wrTick>>
    /\ UNCHANGED <<codecVars, storeVars, simVars, fileVars, reqVars>>
    /\ UNCHANGED scenarioVars

\* set_channel, lines 347-352, for channel c and request body p
SetOn(c, p) ==
    /\ reqArg' = [NoArg EXCEPT !.channel_id = c, !.payload = p,
                               !.enabled = PayloadEnabled(p)]
    /\ pdm_data' = [pdm_data EXCEPT !.channels[c].on = PayloadEnabled(p)]

\* set_channel, lines 343-352: ch["status"]["on"] = enabled
ApiSetOn ==
    /\ reqPc = "idle"
    /\ nSets < MaxSets
    /\ \E c \in SetChannels, p \in {"true", "false"} : SetOn(c, p)
    /\ reqPc' = "set_current"
    /\ nSets' = nSets + 1
    /\ UNCHANGED <<channel_enabled, stamp, trigger_file, ctrl_file, status_file, nTriggers>>
    /\ resp' = NoResp
    /\ UNCHANGED <<codecVars, simVars, rd, wrTick>>
    /\ UNCHANGED scenarioVars

\* set_channel, lines 344-345 and 374-375: an index the guard refuses is
\* answered with 400; a request without a JSON body raises inside the try
\* block (data is None, or get_json itself raises) and is answered with 500
ApiSetRefused ==
    /\ \E c \in RequestChannels, p \in Payloads :
          /\ ~ValidChannel(c) \/ p = "no_body"
          /\ resp' = IF ~ValidChannel(c) THEN ErrorResp(400, c) ELSE ErrorResp(500, c)
    /\ UNCHANGED <<rd, wrTick>>
    /\ UNCHANGED <<codecVars, storeVars, simVars, fileVars, reqVars>>
    /\ UNCHANGED scenarioVars

\* set_channel, lines 353-354: if not enabled: ch["current"] = 0.0
ApiSetCurrent ==
    /\ reqPc = "set_current"
    /\ pdm_data' = IF reqArg.enabled THEN pdm_data
                   ELSE [pdm_data EXCEPT !.channels[reqArg.channel_id].current = 0]
    /\ reqPc' = "set_mask"
    /\ UNCHANGED <<channel_enabled, stamp, reqArg>>
    /\ resp' = NoResp
    /\ UNCHANGED <<codecVars, simVars, fileVars, rd, wrTick>>
    /\ UNCHANGED scenarioVars

\* set_channel, lines 357-370: channel_enabled[channel_id] = enabled, then
\* the control file is written (nothing in this process reads it) and the
\* handler returns
ApiSetMask ==
    /\ reqPc = "set_mask"
    /\ channel_enabled' = [channel_enabled EXCEPT ![reqArg.channel_id] = reqArg.enabled]
    /\ ctrl_file' = FileWith(channel_enabled')
    /\ reqPc' = "idle"
    /\ reqArg' = NoArg
    /\ UNCHANGED <<pdm_data, stamp>>
    /\ UNCHANGED <<trigger_file, status_file, nTriggers, nSets>>
    /\ resp' = NoResp
    /\ UNCHANGED <<codecVars, simVars, rd, wrTick>>
    /\ UNCHANGED scenarioVars

ReaderNext ==
    \/ RdRead \/ RdCheck \/ RdUnpack \/ RdUpdate
    \/ RdSystemVoltage \/ RdTotalCurrent \/ RdTimestamp
    \/ ApiGetPdmStatus \/ ApiGetAllChannels \/ ApiGetChannel \/ ApiGetSystem
    \/ ApiSetOn \/ ApiSetCurrent \/ ApiSetMask

SpecReader == ReaderInit /\ [][ReaderNext]_vars

(***************************************************************************)
(* SpecRequests: the consumer process with the requests the handlers       *)
(* refuse or ought to refuse next to the well-formed ones: channel ids the *)
(* guard turns down, a set-channel body without the field, and no body.    *)
(***************************************************************************)
\* get_channel for an id outside 0..7
ApiGetChannelRefused ==
    /\ \E c \in RequestChannels \ Channels : resp' = GetChannel(c)
    /\ UNCHANGED <<rd, wrTick>>
    /\ UNCHANGED <<codecVars, storeVars, simVars, fileVars, reqVars>>
    /\ UNCHANGED scenarioVars

\* set_channel with a JSON body that has no 'enabled' field
ApiSetOnNoField ==
    /\ reqPc = "idle"
    /\ nSets < MaxSets
    /\ \E c \in SetChannels : SetOn(c, "no_field")
    /\ reqPc' = "set_current"
    /\ nSets' = nSets + 1
    /\ UNCHANGED <<channel_enabled, stamp, trigger_file, ctrl_file, status_file, nTriggers>>
    /\ resp' = NoResp
    /\ UNCHANGED <<codecVars, simVars, rd, wrTick>>
    /\ UNCHANGED scenarioVars

RequestsNext ==
    \/ RdRead \/ RdCheck \/ RdUnpack \/ RdUpdate
    \/ RdSystemVoltage \/ RdTotalCurrent \/ RdTimestamp
    \/ ApiGetChannel \/ ApiGetChannelRefused
    \/ ApiSetOn \/ ApiSetOnNoField \/ ApiSetCurrent \/ ApiSetMask \/ ApiSetRefused

SpecRequests == ReaderInit /\ [][RequestsNext]_vars

(***************************************************************************)
(* SpecReaderLive: the consumer process with a serial line that never runs *)
(* dry.  The reader thread is scheduled again and again, a started handler *)
(* runs to its return, and valid frames keep arriving among the others.    *)
(* The tick counters saturate at MaxReads: past it the model no longer     *)
(* tells one update from the next.                                         *)
(***************************************************************************)
\* read_loop, line 179, on a line that always has more bytes
RdReadAgain ==
    /\ rd.pc = "read"
    /\ \E f \in ReaderInputs :
          rd' = [rd EXCEPT !.pc = "check", !.packet = f]
    /\ resp' = NoResp
    /\ UNCHANGED wrTick
    /\ UNCHANGED <<codecVars, storeVars, simVars, fileVars, reqVars>>
    /\ UNCHANGED scenarioVars

\* a read that returns a frame parse_packet accepts
ValidInputs == {f \in ReaderInputs : CheckPacket(f) = "ok"}
RdReadValid == RdReadAgain /\ rd'.packet \in ValidInputs

\* parse_packet, lines 161-163, and read_loop, line 183
RdTimestampAgain ==
    /\ rd.pc = "timestamp"
    /\ stamp' = Min(stamp + 1, MaxReads)
    /\ pdm_data' = [pdm_data EXCEPT !.timestamp = stamp']
    /\ wrTick' = [wrTick EXCEPT !.timestamp = rd.packet_count + 1]
    /\ rd' = [RdIdle EXCEPT !.packet_count = Min(rd.packet_count + 1, MaxReads),
                            !.result = rd.result]
    /\ resp' = NoResp
    /\ UNCHANGED channel_enabled
    /\ UNCHANGED <<codecVars, simVars, fileVars, reqVars>>
    /\ UNCHANGED scenarioVars

ReaderLiveNext ==
    \/ RdReadAgain \/ RdCheck \/ RdUnpack \/ RdUpdate
    \/ RdSystemVoltage \/ RdTotalCurrent \/ RdTimestampAgain
    \/ ApiSetOn \/ ApiSetCurrent \/ ApiSetMask

ReaderFairness ==
    /\ SF_vars(RdReadValid)
    /\ WF_vars(RdCheck) /\ WF_vars(RdUnpack) /\ WF_vars(RdUpdate)
    /\ WF_vars(RdSystemVoltage) /\ WF_vars(RdTotalCurrent)
    /\ WF_vars(RdTimestampAgain)
    /\ WF_vars(ApiSetCurrent) /\ WF_vars(ApiSetMask)

SpecReaderLive == ReaderInit /\ [][ReaderLiveNext]_vars /\ ReaderFairness

(***************************************************************************)
(* SpecMock: the consumer started with PDM_MOCK=1 and no serial device     *)
(* (read_loop ends on the SerialException).  _mock_loop drives the         *)
(* scenario and writes the store; the handlers run in between.             *)
(***************************************************************************)
\* the sine terms of lines 250-254, sampled at three phases
Wave(tick, i) == ((tick + i) % 3) - 1

\* base = [5.2, 3.5, 4.8, 2.0, 1.2, 0.8, 2.1, 0.0][i], line 252
MockBaseCurrent(i) ==
    CASE i = 0 -> 52000 [] i = 1 -> 35000 [] i = 2 -> 48000 [] i = 3 -> 20000
      [] i = 4 -> 12000 [] i = 5 -> 8000 [] i = 6 -> 21000 [] OTHER -> 0

\* round(x, 1) of a non-negative fixed-point x
RoundFx1(x, up) ==
    LET q == x \div 1000
        r == x % 1000
    IN  1000 * (IF r < 500 THEN q ELSE IF r > 500 THEN q + 1 ELSE IF up THEN q + 1 ELSE q)

\* lines 248-282 for channel i: the record written, before rounding; state is
\* scenario_states[i] when a scenario drove this pass
MockChannel(i, tick, enabled, driven, state) ==
    LET v == IF driven THEN state.voltage ELSE 137500 + 1500 * Wave(tick, i)
        base == MockBaseCurrent(i)
        ripple == 2000 * Wave(tick + 1, i)
        cur == IF driven THEN state.current ELSE Max(0, base + ripple)
        temp == IF driven THEN state.temp ELSE 300000 + 50000 * Wave(tick + 2, i)
        on == IF driven THEN BitSet(state.status, 0) /\ enabled
              ELSE enabled /\ i # 7
    IN  [voltage |-> v,
         current |-> IF on THEN cur ELSE 0,
         temperature |-> temp,
         on |-> on,
         fault |-> IF driven THEN BitSet(state.status, 1) ELSE FALSE,
         over_current |-> Max(0, base + ripple) > base + 15000,
         over_temp |-> 300000 + 50000 * Wave(tick + 2, i) > 750000]

MockInit ==
    /\ SimIdle
    /\ seed = 0
    /\ samples = InitChannels
    /\ pkt = <<>>
    /\ pktFrom = "none"
    /\ cdPc = "input"
    /\ pdm_data = InitStore
    /\ channel_enabled = InitEnabled
    /\ stamp = 0

\* _mock_loop, lines 222-246: drive the scenario if one is active.  Nothing
\* in _mock_loop catches what get_channel_states raises: the exception ends
\* the thread.
MockDrive ==
    /\ mock.pc = "drive"
    /\ mock.ticks < MaxTicks
    /\ LET elapsed == now - mock.started_at
           id == mock.current_scenario
       IN  mock' =
             IF id = 0
             THEN [mock EXCEPT !.pc = "channel", !.i = 0, !.total_current = 0,
                               !.driven = FALSE]
             ELSE IF elapsed >= Duration(id)
             THEN [mock EXCEPT !.pc = "channel", !.i = 0, !.total_current = 0,
                               !.driven = FALSE,
                               !.current_scenario = 0,
                               !.status = [@ EXCEPT !.status = "complete",
                                                    !.elapsed = elapsed,
                                                    !.current_event = "Scenario complete"]]
             ELSE IF GetChannelStatesRaises(id)
             THEN [mock EXCEPT !.pc = "ended"]
             ELSE [mock EXCEPT !.pc = "channel", !.i = 0, !.total_current = 0,
                               !.driven = TRUE,
                               !.scenario_states = GetChannelStates(id, elapsed),
                               !.status = [name |-> ScenarioName(id),
                                           elapsed |-> elapsed,
                                           status |-> "active",
                                           current_event |-> GetEventAtTime(id, elapsed)]]
    /\ resp' = NoResp
    /\ UNCHANGED <<rd, wrTick, scn>>
    /\ UNCHANGED <<codecVars, storeVars, simVars, fileVars, reqVars>>

\* _mock_loop, lines 248-284, for channel i: ch.update(...), total_current += cur
MockUpdate ==
    /\ mock.pc = "channel"
    /\ LET ch == MockChannel(mock.i, mock.ticks, channel_enabled[mock.i],
                             mock.driven, mock.scenario_states[mock.i])
       IN  /\ \E up \in BOOLEAN :
                 pdm_data' = [pdm_data EXCEPT !.channels[mock.i] =
                                 [ch EXCEPT !.voltage = RoundFx2(@, up),
                                            !.current = RoundFx2(@, up),
                                            !.temperature = RoundFx1(@, up)]]
           /\ mock' = [mock EXCEPT !.total_current = @ + ch.current,
                                   !.i = @ + 1,
                                   !.pc = IF mock.i + 1 < NumChannels THEN "channel"
                                          ELSE "system_voltage"]
    /\ wrTick' = [wrTick EXCEPT !.channels[mock.i] = mock.ticks + 1]
    /\ resp' = NoResp
    /\ UNCHANGED <<channel_enabled, stamp, rd, scn>>
    /\ UNCHANGED <<codecVars, simVars, fileVars, reqVars>>

\* _mock_loop, line 286
MockSystemVoltage ==
    /\ mock.pc = "system_voltage"
    /\ pdm_data' = [pdm_data EXCEPT !.system_voltage = pdm_data.channels[0].voltage]
    /\ mock' = [mock EXCEPT !.pc = "total_current"]
    /\ wrTick' = [wrTick EXCEPT !.system_voltage = mock.ticks + 1]
    /\ resp' = NoResp
    /\ UNCHANGED <<channel_enabled, stamp, rd, scn>>
    /\ UNCHANGED <<codecVars, simVars, fileVars, reqVars>>

\* _mock_loop, line 287
MockTotalCurrent ==
    /\ mock.pc = "total_current"
    /\ \E up \in BOOLEAN :
          pdm_data' = [pdm_data EXCEPT !.total_current = RoundFx2(mock.total_current, up)]
    /\ mock' = [mock EXCEPT !.pc = "timestamp"]
    /\ wrTick' = [wrTick EXCEPT !.total_current = mock.ticks + 1]
    /\ resp' = NoResp
    /\ UNCHANGED <<channel_enabled, stamp, rd, scn>>
    /\ UNCHANGED <<codecVars, simVars, fileVars, reqVars>>

\* _mock_loop, lines 288-289: the timestamp, then time.sleep(1.0 / hz)
MockTimestamp ==
    /\ mock.pc = "timestamp"
    /\ pdm_data' = [pdm_data EXCEPT !.timestamp = stamp + 1]
    /\ stamp' = stamp + 1
    /\ wrTick' = [wrTick EXCEPT !.timestamp = mock.ticks + 1]
    /\ mock' = [mock EXCEPT !.pc = "drive", !.ticks = @ + 1, !.i = 0,
                            !.total_current = 0]
    /\ \E step \in TickSteps : now' = now + step
    /\ resp' = NoResp
    /\ UNCHANGED <<channels_state, voltage, active_scenario, scenario_started_at,
                   scenario_info, simPc, simTrig, tickMask, packet_count, seed>>
    /\ UNCHANGED <<channel_enabled, rd, scn>>
    /\ UNCHANGED <<codecVars, fileVars, reqVars>>

\* trigger_scenario with MOCK_ENABLED, lines 380-389:
\* mock_current_scenario = get_scenario(int(scenario_id))
ApiMockTrigger ==
    /\ reqPc = "idle"
    /\ nTriggers < MaxTriggers
    /\ \E id \in ScenarioIds :
          /\ reqArg' = [NoArg EXCEPT !.scenario_id = id]
          /\ mock' = [mock EXCEPT !.current_scenario = id]
    /\ reqPc' = "mock_started_at"
    /\ nTriggers' = nTriggers + 1
    /\ resp' = NoResp
    /\ UNCHANGED <<trigger_file, ctrl_file, status_file, nSets>>
    /\ UNCHANGED <<rd, wrTick, scn>>
    /\ UNCHANGED <<codecVars, storeVars, simVars>>

\* trigger_scenario, line 392: mock_scenario_started_at = time.time()
ApiMockTriggerStart ==
    /\ reqPc = "mock_started_at"
    /\ mock' = [mock EXCEPT !.started_at = now]
    /\ reqPc' = "mock_status"
    /\ resp' = NoResp
    /\ UNCHANGED <<reqArg, rd, wrTick, scn>>
    /\ UNCHANGED <<codecVars, storeVars, simVars, fileVars>>

\* trigger_scenario, lines 393-400: mock_scenario_status.update(...), return
ApiMockTriggerStatus ==
    /\ reqPc = "mock_status"
    /\ mock' = [mock EXCEPT !.status = [name |-> ScenarioName(reqArg.scenario_id),
                                        elapsed |-> 0,
                                        status |-> "active",
                                        current_event |-> "Starting"]]
    /\ reqPc' = "idle"
    /\ reqArg' = NoArg
    /\ resp' = NoResp
    /\ UNCHANGED <<rd, wrTick, scn>>
    /\ UNCHANGED <<codecVars, storeVars, simVars, fileVars>>

\* get_test_scenario with MOCK_ENABLED, lines 419-420
ApiMockGetTestScenario ==
    /\ resp' = [kind |-> "scenario", body |-> mock.status, ticks |-> {}]
    /\ UNCHANGED <<rd, wrTick, mock, scn>>
    /\ UNCHANGED <<codecVars, storeVars, simVars, fileVars, reqVars>>

MockNext ==
    \/ MockDrive \/ MockUpdate \/ MockSystemVoltage \/ MockTotalCurrent
    \/ MockTimestamp
    \/ ApiMockTrigger \/ ApiMockTriggerStart \/ ApiMockTriggerStatus
    \/ ApiMockGetTestScenario

SpecMock == MockInit /\ [][MockNext]_vars

(***************************************************************************)
(* SpecMockRaising: SpecMock with a registry whose scenario does not       *)
(* override get_channel_states.                                            *)
(***************************************************************************)
\* trigger_scenario, mock branch, lines 386-391, for the base scenario
ApiMockTriggerBase ==
    /\ reqPc = "idle"
    /\ nTriggers < MaxTriggers
    /\ reqArg' = [NoArg EXCEPT !.scenario_id = BaseScenario]
    /\ mock' = [mock EXCEPT !.current_scenario = BaseScenario]
    /\ reqPc' = "mock_started_at"
    /\ nTriggers' = nTriggers + 1
    /\ resp' = NoResp
    /\ UNCHANGED <<trigger_file, ctrl_file, status_file, nSets>>
    /\ UNCHANGED <<rd, wrTick, scn>>
    /\ UNCHANGED <<codecVars, storeVars, simVars>>

MockRaisingNext == MockNext \/ ApiMockTriggerBase

SpecMockRaising == MockInit /\ [][MockRaisingNext]_vars

(***************************************************************************)
(* SpecScenario: the scenario classes of test_cases.py as their callers    *)
(* use them: get_event_at_time and get_channel_states for an elapsed time, *)
(* the caller writing into the returned list (as _apply_channel_controls   *)
(* does with self.channels_state), other calls in between, and the same    *)
(* call again.                                                             *)
(***************************************************************************)
\* elapsed times in ms: every threshold of both scenarios, its neighbours,
\* a clock that went backwards and the end of the scenario
ProbeElapsed ==
    {-100, 0, 1, 999, 1000, 1001, 1499, 1500, 1999, 2000, 2250, 2499, 2500,
     2750, 2999, 3000, 3001, 3499, 3500, 3999, 4000, 4499, 4500, 4999, 5000}

\* an event list of a TestScenario with two entries at the same time
TiedEvents == << <<0, "first">>, <<1000, "second">>, <<1000, "third">>, <<2000, "fourth">> >>

\* the masks a caller forces onto the returned list
ProbeMasks == {[i \in Channels |-> FALSE], [i \in Channels |-> TRUE],
               [i \in Channels |-> i # 3]}

ScenarioInit ==
    /\ SimIdle
    /\ seed = 0
    /\ samples = InitChannels
    /\ pkt = <<>>
    /\ pktFrom = "none"
    /\ cdPc = "input"
    /\ pdm_data = InitStore
    /\ channel_enabled = InitEnabled
    /\ stamp = 0

\* get_scenario(id) and the elapsed time of a tick
ScnChoose ==
    /\ scn.pc = "idle"
    /\ \E id \in ScenarioIds, e \in ProbeElapsed :
          scn' = [ScnIdle EXCEPT !.pc = "input", !.id = id, !.elapsed = e]
    /\ UNCHANGED <<codecVars, storeVars, simVars, fileVars, reqVars>>
    /\ UNCHANGED <<readerVars, mock>>

\* scenario.get_event_at_time(elapsed)
ScnGetEvent ==
    /\ scn.pc = "input"
    /\ scn' = [scn EXCEPT !.pc = "event",
                          !.event = GetEventAtTime(scn.id, scn.elapsed)]
    /\ UNCHANGED <<codecVars, storeVars, simVars, fileVars, reqVars>>
    /\ UNCHANGED <<readerVars, mock>>

\* get_event_at_time of a TestScenario whose events are TiedEvents
ScnGetEventTied ==
    /\ scn.pc = "input"
    /\ scn' = [scn EXCEPT !.pc = "event", !.tied = TRUE,
                          !.event = EventScan(TiedEvents, 1, scn.elapsed,
                                              "Normal operation")]
    /\ UNCHANGED <<codecVars, storeVars, simVars, fileVars, reqVars>>
    /\ UNCHANGED <<readerVars, mock>>

\* states = scenario.get_channel_states(elapsed); first keeps what the call
\* returned
ScnGetStates ==
    /\ scn.pc = "event"
    /\ LET r == GetChannelStates(scn.id, scn.elapsed)
       IN  scn' = [scn EXCEPT !.pc = "first", !.states = r, !.first = r]
    /\ UNCHANGED <<codecVars, storeVars, simVars, fileVars, reqVars>>
    /\ UNCHANGED <<readerVars, mock>>

\* the caller writes statuses into the list it was handed
ScnMutate ==
    /\ scn.pc = "first"
    /\ \E mask \in ProbeMasks :
          scn' = [scn EXCEPT !.pc = "mutated", !.states = ApplyMask(scn.states, mask)]
    /\ UNCHANGED <<codecVars, storeVars, simVars, fileVars, reqVars>>
    /\ UNCHANGED <<readerVars, mock>>

\* calls for another scenario or another elapsed time in between; the
\* caller keeps the list of the first call
ScnCallBetween ==
    /\ scn.pc = "mutated"
    /\ \E id \in ScenarioIds, e \in ProbeElapsed :
          /\ GetChannelStates(id, e) \in [Channels -> [voltage : Int, current : Int,
                                                       temp : Int, status : Int]]
          /\ GetEventAtTime(id, e) \in STRING
    /\ scn' = [scn EXCEPT !.pc = "between"]
    /\ UNCHANGED <<codecVars, storeVars, simVars, fileVars, reqVars>>
    /\ UNCHANGED <<readerVars, mock>>

\* the same call again
ScnGetStatesAgain ==
    /\ scn.pc \in {"mutated", "between"}
    /\ scn' = [scn EXCEPT !.pc = "again",
                          !.states = GetChannelStates(scn.id, scn.elapsed)]
    /\ UNCHANGED <<codecVars, storeVars, simVars, fileVars, reqVars>>
    /\ UNCHANGED <<readerVars, mock>>

ScenarioNext ==
    \/ ScnChoose \/ ScnGetEvent \/ ScnGetEventTied \/ ScnGetStates
    \/ ScnMutate \/ ScnCallBetween \/ ScnGetStatesAgain

SpecScenario == ScenarioInit /\ [][ScenarioNext]_vars

(***************************************************************************)
(* Claims checked under SpecCodec                                          *)
(***************************************************************************)
\* the XOR of bytes[1 .. n], bit by bit: bit b is the parity of the number of
\* bytes that have bit b set
XorParity(bytes, n) ==
    LET par(b) == (Cardinality({k \in 1 .. n : BitSet(bytes[k], b)}) % 2) * 2 ^ b
    IN  par(0) + par(1) + par(2) + par(3) + par(4) + par(5) + par(6) + par(7)

\* a frame as the data model defines it: 58 bytes, byte 0 the sync marker,
\* byte 57 the XOR of bytes 0..56
ValidFrame(bytes) ==
    /\ Len(bytes) = 58
    /\ bytes[1] = 170
    /\ bytes[58] = XorParity(bytes, 57)

AllEnabled == \A i \in Channels : channel_enabled[i]

\* the status byte the four stored flags stand for
StoredStatus(ch) ==
    (IF ch.on THEN 1 ELSE 0) + (IF ch.fault THEN 2 ELSE 0)
    + (IF ch.over_current THEN 4 ELSE 0) + (IF ch.over_temp THEN 8 ELSE 0)

\* C1: parse_packet accepts a byte string (returns True and updates the store)
\* if and only if it is 58 bytes long, starts with 0xAA and ends with the XOR
\* of its first 57 bytes; every other input is rejected and the store is as it was.
C1_AcceptIffValid ==
    cdPc \in {"accepted", "rejected"} =>
        /\ (cdPc = "accepted") <=> ValidFrame(pkt)
        /\ cdPc = "accepted" => pdm_data.timestamp = stamp /\ stamp = 1
        /\ cdPc = "rejected" => pdm_data = InitStore /\ stamp = 0

\* C1 witness: a damaged frame whose checksum matches again is accepted, and
\* its payload reaches the store
C1_Witness ==
    /\ cdPc = "accepted"
    /\ pktFrom = "corrupt"
    /\ pdm_data.timestamp = 1
    /\ pdm_data.channels[0].voltage # 0

C3_EncodeNeverRaises ==
    /\ cdPc # "raised"
    /\ cdPc = "encoded" =>
          /\ ValidFrame(pkt)
          /\ \A i \in Channels :
                /\ UnpackRecord(pkt, i).voltage_mv = VoltageMv(samples[i]) % 65536
                /\ UnpackRecord(pkt, i).current_ma = CurrentMa(samples[i]) % 65536

\* C9: after any accepted frame, every channel record of the store with
\* on = false has current 0.0, whatever the frame holds and whatever the mask.
C9_DecodedOffMeansZero ==
    cdPc = "accepted" =>
        \A i \in Channels :
            ~pdm_data.channels[i].on => pdm_data.channels[i].current = 0

\* ---- claims about the producer loop, under SpecSim ----

\* the frame of the current tick has been written to the port
FrameEmitted == simPc = "status"

\* C4: the producer loop runs until shutdown: whatever the triggers (ids 1
\* and 2), the control messages and the ambient draws, no tick aborts the
\* loop; every tick encodes and emits its frame and goes on to the next.
C4_NoTickAborts == simPc # "aborted"

\* C7: whenever the control message the producer applied on a tick marks
\* channel i disabled, the frame emitted on that tick carries the on bit clear
\* and a current field of 0 for channel i, in ambient mode and in a scenario.
C7_DisabledChannelSilent ==
    (FrameEmitted /\ tickMask.applied) =>
        \A i \in Channels :
            ~tickMask.channels[i] =>
                /\ ~BitSet(UnpackRecord(pkt, i).status_byte, 0)
                /\ UnpackRecord(pkt, i).current_ma = 0

\* C8: in every emitted frame a channel whose status has the on bit clear has
\* a current field of 0.
C8_OffMeansZeroCurrent ==
    FrameEmitted =>
        \A i \in Channels :
            ~BitSet(UnpackRecord(pkt, i).status_byte, 0) =>
                UnpackRecord(pkt, i).current_ma = 0

\* ---- claims about the consumer process, under SpecReader ----

\* C5: no torn reads: a response of get_pdm_status, get_all_channels or
\* get_system never combines fields written by two different updates of the
\* background loop.
C5_NoTornRead ==
    resp.kind \in {"status", "channels", "system"} =>
        Cardinality(resp.ticks \ {0}) <= 1

\* C6: when the decode loop completes a store update (and no set_channel call
\* is under way), every channel whose enable-mask entry is false has
\* on = false and current = 0.0 in the store.
C6_MaskEnforcedAtCompletion ==
    [][(rd.pc = "timestamp" /\ rd'.pc = "read" /\ reqPc' = "idle") =>
          \A i \in Channels :
              ~channel_enabled'[i] =>
                  /\ ~pdm_data'.channels[i].on
                  /\ pdm_data'.channels[i].current = 0]_vars

\* C10: a malformed packet (wrong length, wrong first byte or checksum
\* mismatch) is dropped with no effect: the step of the loop that rejects it
\* leaves the store and the enable mask as they were and takes the loop back
\* to the next read.
C10_MalformedDropped ==
    [][(rd.pc = "check" /\ rd' # rd /\ ~ValidFrame(rd.packet)) =>
          /\ rd'.pc = "read"
          /\ rd'.packet_count = rd.packet_count
          /\ pdm_data' = pdm_data
          /\ channel_enabled' = channel_enabled
          /\ stamp' = stamp]_vars

\* C10 witness: after one accepted frame a packet with a checksum mismatch
\* has been dropped, and the loop is back at its read
C10_Witness ==
    /\ rd.pc = "read"
    /\ rd.result = "bad_checksum"
    /\ rd.packet_count = 1
    /\ pdm_data.timestamp = 1
    /\ pdm_data.channels[3].current = 80000

\* ---- more claims about the frame codec, under SpecCodec ----

\* the frame under test is the encoder's frame with exactly one bit flipped
OneBitFlipped ==
    /\ pktFrom = "corrupt"
    /\ ~MakePacketRaises(samples)
    /\ Len(pkt) = PacketLen
    /\ LET sent == MakePacket(samples)
           changed == {p \in 1 .. PacketLen : pkt[p] # sent[p]}
       IN  /\ Cardinality(changed) = 1
           /\ \A p \in changed : BitXor(pkt[p], sent[p]) \in {2 ^ b : b \in 0 .. 7}

\* C11 as stated: for every valid frame and each of its 464 bit positions, the
\* frame with that bit flipped is rejected with a checksum mismatch.
C11_FlipIsChecksumMismatch ==
    /\ cdPc = "encoded" =>
          \A p \in 1 .. 58, b \in 0 .. 7 :
              CheckPacket(FlipBit(pkt, p, b)) = "bad_checksum"
    /\ (cdPc \in {"accepted", "rejected"} /\ OneBitFlipped) =>
          cdPc = "rejected" /\ rd.result = "bad_checksum"

\* C11 amended: the frame with one bit flipped is always rejected: by the sync
\* check when the bit is one of the eight of byte 0, with a checksum mismatch
\* when it is any of the other 456.
C11_FlipIsRejected ==
    /\ cdPc = "encoded" =>
          \A p \in 1 .. 58, b \in 0 .. 7 :
              CheckPacket(FlipBit(pkt, p, b)) =
                  IF p = 1 THEN "bad_sync" ELSE "bad_checksum"
    /\ (cdPc \in {"accepted", "rejected"} /\ OneBitFlipped) =>
          /\ cdPc = "rejected"
          /\ rd.result = IF pkt[1] # 170 THEN "bad_sync" ELSE "bad_checksum"

\* C11 witness: a frame with one payload bit flipped has been rejected for its
\* checksum
C11_Witness ==
    /\ cdPc = "rejected"
    /\ OneBitFlipped
    /\ pkt[1] = 170
    /\ pkt[58] = MakePacket(samples)[58]
    /\ rd.result = "bad_checksum"

\* C12: guard order: an input whose length is not 58 fails on the length
\* check; a 58-byte input whose byte 0 is not 0xAA fails on the sync check
\* whether or not its last byte is the right checksum; a checksum mismatch is
\* reported only for an input that passed both.
C12_GuardOrder ==
    cdPc \in {"accepted", "rejected"} =>
        /\ Len(pkt) # 58 => (cdPc = "rejected" /\ rd.result = "bad_length")
        /\ (Len(pkt) = 58 /\ pkt[1] # 170) =>
              (cdPc = "rejected" /\ rd.result = "bad_sync")
        /\ rd.result = "bad_checksum" => (Len(pkt) = 58 /\ pkt[1] = 170)

\* C12 witness: a 58-byte input with a wrong first byte and a wrong last byte
\* has failed on the sync check
C12_Witness ==
    /\ cdPc = "rejected"
    /\ Len(pkt) = 58
    /\ pkt[1] # 170
    /\ pkt[58] # XorParity(pkt, 57)
    /\ rd.result = "bad_sync"

\* ---- more claims about the producer loop, under SpecSim ----

\* the status the status file shows ("none" before the first tick wrote it)
Published == IF status_file.readable THEN status_file.content.status ELSE "none"

\* C13: scenario lifecycle as published by the producer, tick by tick: the
\* status is "active" exactly while a scenario is running, with its elapsed
\* time in [0, 5 s); it is "complete" on the first tick at or past 5 s, which
\* follows an "active" tick; after "complete" comes "idle", or "active" with
\* elapsed 0 if that tick consumed a trigger; "active" is never followed by
\* "idle".
C13_Lifecycle ==
    [][(simPc = "status" /\ simPc' = "check_trigger") =>
          LET after == status_file'.content
          IN  /\ after.status \in {"idle", "active", "complete"}
              /\ (after.status = "active") <=> (active_scenario # 0)
              /\ after.status = "active" =>
                    /\ after.elapsed = now - scenario_started_at
                    /\ after.elapsed >= 0 /\ after.elapsed < 5000
              /\ after.status = "complete" =>
                    /\ Published = "active"
                    /\ now - scenario_started_at >= 5000
              /\ Published = "active" => after.status \in {"active", "complete"}
              /\ Published = "complete" =>
                    /\ after.status \in {"idle", "active"}
                    /\ after.status = "active" => after.elapsed = 0]_vars

\* C13 witness: a scenario has gone through active and complete, and the tick
\* after published idle (the status keeps the scenario's name)
C13_Witness ==
    /\ Published = "idle"
    /\ status_file.content.name = "Cooling Fan Failure"
    /\ active_scenario = 0
    /\ now - scenario_started_at > 5000

\* ---- claims about the in-process scenario engine, under SpecMock ----

\* C14: after the one tick that reports "complete", every pass of the mock
\* loop that starts with no scenario active and no trigger being served
\* leaves the status "idle" for get_test_scenario to return.
C14_IdleAfterComplete ==
    [][(mock.pc = "drive" /\ mock'.pc = "channel"
        /\ mock.current_scenario = 0 /\ reqPc = "idle"
        /\ mock.status.status = "complete") =>
          mock'.status.status = "idle"]_vars

\* ---- claims about the trigger file, under SpecSim ----

\* a tick's step that makes a scenario the active one
ScenarioStarts ==
    \/ scenario_started_at' # scenario_started_at
    \/ active_scenario' \notin {0, active_scenario}

C16_MaskAppliedLast ==
    (FrameEmitted /\ tickMask.applied) =>
        \A i \in Channels :
            UnpackRecord(pkt, i).status_byte = IF tickMask.channels[i] THEN 1 ELSE 0

\* the fan's on bit and eight times the cross-channel average temperature
FanOn(cs) == BitSet(cs[3].status, 0)
TempSum(cs) == SumTemp(cs, NumChannels)

\* C18: over an ambient tick the fan goes from off to on only if the average
\* temperature of the tick is above 40, and from on to off only if it is
\* below 35.
C18_FanHysteresis ==
    [][(simPc = "controls" /\ simPc' = "status" /\ active_scenario = 0) =>
          /\ (~FanOn(channels_state) /\ FanOn(channels_state')) =>
                TempSum(channels_state') > NumChannels * 400000
          /\ (FanOn(channels_state) /\ ~FanOn(channels_state')) =>
                TempSum(channels_state') < NumChannels * 350000]_vars

\* ---- claims about the consumer process, under SpecReaderLive ----

\* the store shows channel c switched off and drawing nothing
ShownOff(c) == ~pdm_data.channels[c].on /\ pdm_data.channels[c].current = 0

\* C17: if from some point on channel c stays disabled in the enable mask
\* (set_channel(c, false) has returned and no later call re-enables c), then
\* from some point on the store shows c with on false and current 0, whatever
\* the reader thread was doing when the call ran.
C17_EventuallyOff ==
    \A c \in SetChannels :
        <>[](~channel_enabled[c]) => <>[]ShownOff(c)

\* after the call returned, an update has stored channel c as off although
\* the frame it parsed carries c switched on
C17_Witness ==
    \E c \in SetChannels :
        /\ ~channel_enabled[c]
        /\ reqPc = "idle"
        /\ rd.pc = "unpack"
        /\ rd.i > c
        /\ BitSet(UnpackRecord(rd.packet, c).status_byte, 0)
        /\ UnpackRecord(rd.packet, c).current_ma > 0
        /\ wrTick.channels[c] = rd.packet_count + 1
        /\ ShownOff(c)

\* ---- claims about the scenario classes, under SpecScenario ----

\* the event list get_event_at_time has scanned
ScannedEvents == IF scn.tied THEN TiedEvents ELSE Events(scn.id)

\* the thresholds of an event list never decrease
Nondecreasing(events) ==
    \A k \in 1 .. (Len(events) - 1) : events[k][1] <= events[k + 1][1]

\* the entries of an event list whose threshold is at or before t
AtOrBefore(events, t) == {k \in 1 .. Len(events) : events[k][1] <= t}

\* C19: get_event_at_time(t) returns the label of the last entry whose
\* threshold is <= t (the later one of two entries with the same threshold)
\* and "Normal operation" when t is below the first threshold; the event
\* lists of both registered scenarios are in nondecreasing threshold order.
C19_EventLookup ==
    /\ \A id \in ScenarioIds : Nondecreasing(Events(id))
    /\ scn.pc = "event" =>
          LET reached == AtOrBefore(ScannedEvents, scn.elapsed)
          IN  IF reached = {}
              THEN scn.event = "Normal operation"
              ELSE \E k \in reached :
                      /\ \A j \in reached : j <= k
                      /\ scn.event = ScannedEvents[k][2]

\* a lookup at the time two entries share has returned the later one
C19_Witness ==
    /\ scn.pc = "event"
    /\ scn.tied
    /\ scn.elapsed = 1000
    /\ scn.event = "third"

ControlState == <<pdm_data, channel_enabled, ctrl_file>>

\* a step of set_channel serving a request whose body is malformed
MalformedSetStep ==
    \/ reqPc' # reqPc /\ ("no_field" \in {reqArg.payload, reqArg'.payload})
    \/ resp'.kind = "error" /\ resp'.body.code = 500

\* C21: a set-channel request without a JSON body or without the 'enabled'
\* field changes nothing: no step of the handler serving it changes the
\* store, the enable mask or the control file.
C21_MalformedChangesNothing ==
    [][MalformedSetStep => ControlState' = ControlState]_vars

\* C22: a request answered with the invalid-channel error has an id outside
\* 0..7 and its step leaves the store, the enable mask and the control file
\* as they were; every answer to an id outside 0..7 is that error; a
\* set-channel request in progress has an id inside 0..7.
C22_InvalidIndexRejected ==
    [][/\ (resp'.kind = "error" /\ resp'.body.code = 400) =>
             /\ resp'.body.channel_id \notin Channels
             /\ ControlState' = ControlState
             /\ reqPc' = reqPc
       /\ (resp'.kind = "error" /\ resp'.body.channel_id \notin Channels) =>
             resp'.body.code = 400
       /\ resp'.kind = "channel" =>
             \E c \in Channels : resp'.body.channel = pdm_data.channels[c]
       /\ reqPc' # "idle" => reqArg'.channel_id \in Channels]_vars

\* a request for channel 8 has been refused after the reader stored a frame
C22_Witness ==
    /\ resp.kind = "error"
    /\ resp.body.code = 400
    /\ resp.body.channel_id = 8
    /\ rd.packet_count >= 1
    /\ \E c \in Channels : pdm_data.channels[c].on

\* ---- claims about a scenario whose state function raises, under SpecMockRaising ----

C24_FanCurrentProfile ==
    (scn.pc = "first" /\ scn.id = 1) =>
        LET fan == scn.first[3]
        IN  /\ scn.elapsed < 2000 => fan.current = 80000
            /\ scn.elapsed >= 3000 => fan.current = 0
            /\ BitSet(fan.status, 1) <=> scn.elapsed >= 3000
            /\ \A e \in ProbeElapsed :
                  e <= scn.elapsed => GetChannelStates(1, e)[3].current >= fan.current

\* C25: in the engine start scenario, from 3.0 s on the starter is off with
\* current 0.0, the channels 0..3 are on with a non-zero current, and all
\* eight voltages are the 13.8 V baseline.
C25_EngineStarted ==
    (scn.pc = "first" /\ scn.id = 2 /\ scn.elapsed >= 3000) =>
        /\ ~BitSet(scn.first[7].status, 0)
        /\ scn.first[7].current = 0
        /\ \A i \in 0 .. 3 :
              BitSet(scn.first[i].status, 0) /\ scn.first[i].current > 0
        /\ \A i \in Channels : scn.first[i].voltage = 138000

\* ---- claims about the enable mask on the producer, under SpecSim ----

\* C26: applying a control message only forces channels off: on a tick of a
\* scenario every channel enabled in the applied mask is emitted with the
\* status byte the scenario computed for that tick, and in ambient mode the
\* starter, which the ambient model never switches on, is emitted off.
C26_MaskOnlyForcesOff ==
    FrameEmitted =>
        /\ (tickMask.applied /\ active_scenario # 0) =>
              \A i \in Channels :
                 tickMask.channels[i] =>
                    UnpackRecord(pkt, i).status_byte =
                       GetChannelStates(active_scenario,
                                        now - scenario_started_at)[i].status
        /\ active_scenario = 0 => ~BitSet(UnpackRecord(pkt, 7).status_byte, 0)

\* ---- claims about the store's aggregates, under SpecReader ----

\* no parse_packet call and no set_channel call is part-way through
StoreQuiet == rd.pc = "read" /\ reqPc = "idle"

\* C27: whenever no store update is in progress, after a completed loop tick
\* as after a completed set_channel call, total_current is the sum of the
\* eight currents the store holds and system_voltage is channel 0's voltage.
C27_AggregatesConsistent ==
    StoreQuiet =>
        /\ pdm_data.total_current = SumCurrent(pdm_data.channels, NumChannels)
        /\ pdm_data.system_voltage = pdm_data.channels[0].voltage

(***************************************************************************)
(* SpecLaunch: main() of usb_reader.py in both launch configurations.      *)
(* main always starts the reader thread and, with PDM_MOCK set, the mock   *)
(* loop next to it; read_loop ends at once when the port cannot be opened  *)
(* and runs on when it can.  Each loop is followed for MaxPasses passes.   *)
(***************************************************************************)
\* MOCK_ENABLED, line 74, as main saw it at lines 446-447: the mock thread
\* was started or was not
MockEnabled == mock.pc # "off"

\* main, lines 444-447: usb_reader.start(), and start_mock(hz=10) if
\* MOCK_ENABLED
LaunchInit ==
    /\ BeforeThreads
    /\ seed = 0
    /\ samples = InitChannels
    /\ pkt = <<>>
    /\ pktFrom = "none"
    /\ cdPc = "input"
    /\ pdm_data = InitStore
    /\ channel_enabled = InitEnabled
    /\ stamp = 0
    /\ rd = [RdIdle EXCEPT !.pc = "open"]
    /\ \E enabled \in BOOLEAN :
          mock = [MockIdle EXCEPT !.pc = IF enabled THEN "drive" ELSE "off"]

\* read_loop, lines 171-174: serial.Serial(...) returns and the loop starts
RdOpen ==
    /\ rd.pc = "open"
    /\ rd' = [rd EXCEPT !.pc = "read"]
    /\ resp' = NoResp
    /\ UNCHANGED wrTick
    /\ UNCHANGED <<codecVars, storeVars, simVars, fileVars, reqVars>>
    /\ UNCHANGED scenarioVars

\* read_loop, lines 171-172 and 192-204: serial.Serial(...) raises
\* SerialException and the thread ends
RdOpenFails ==
    /\ rd.pc = "open"
    /\ rd' = [rd EXCEPT !.pc = "closed"]
    /\ resp' = NoResp
    /\ UNCHANGED wrTick
    /\ UNCHANGED <<codecVars, storeVars, simVars, fileVars, reqVars>>
    /\ UNCHANGED scenarioVars

\* how many passes of each loop are followed
MaxPasses == 1

\* read_loop, line 179, for the passes followed
LaunchRead == RdRead /\ rd.reads < MaxPasses

\* _mock_loop, lines 222-246, for the passes followed
LaunchMockDrive == MockDrive /\ mock.ticks < MaxPasses

\* set_channel, lines 357-370, without MOCK_ENABLED
LaunchSetMask == ~MockEnabled /\ ApiSetMask

\* set_channel, lines 357-361, with MOCK_ENABLED: the mask entry is written
\* and the handler returns, no control file
LaunchSetMaskMock ==
    /\ MockEnabled
    /\ reqPc = "set_mask"
    /\ channel_enabled' = [channel_enabled EXCEPT ![reqArg.channel_id] = reqArg.enabled]
    /\ reqPc' = "idle"
    /\ reqArg' = NoArg
    /\ resp' = NoResp
    /\ UNCHANGED <<pdm_data, stamp>>
    /\ UNCHANGED <<codecVars, simVars, fileVars, rd, wrTick>>
    /\ UNCHANGED scenarioVars

LaunchNext ==
    \/ RdOpen \/ RdOpenFails
    \/ LaunchRead \/ RdCheck \/ RdUnpack \/ RdUpdate
    \/ RdSystemVoltage \/ RdTotalCurrent \/ RdTimestamp
    \/ LaunchMockDrive \/ MockUpdate \/ MockSystemVoltage \/ MockTotalCurrent
    \/ MockTimestamp
    \/ ApiSetOn \/ ApiSetCurrent \/ LaunchSetMask \/ LaunchSetMaskMock

SpecLaunch == LaunchInit /\ [][LaunchNext]_vars

\* ---- claims about who writes the store, under SpecLaunch ----

\* read_loop has written a field of the store since the launch
ReaderWrote ==
    \/ rd.packet_count >= 1
    \/ rd.pc \in {"system_voltage", "total_current", "timestamp"}
    \/ rd.pc = "unpack" /\ rd.i >= 1

\* _mock_loop has written a field of the store since the launch
MockWrote ==
    \/ mock.ticks >= 1
    \/ mock.pc \in {"system_voltage", "total_current", "timestamp"}
    \/ mock.pc = "channel" /\ mock.i >= 1

\* a step of a background loop leaves the enable mask alone
LoopKeepsMask == (rd' # rd \/ mock' # mock) => channel_enabled' = channel_enabled

\* a step of a control handler writes nothing in the store but the on flag
\* and the current of the channel it toggles
HandlerWritesOverride ==
    reqPc' # reqPc =>
        LET c == IF reqPc = "idle" THEN reqArg'.channel_id ELSE reqArg.channel_id
        IN  pdm_data' = [pdm_data EXCEPT
                            !.channels[c].on = pdm_data'.channels[c].on,
                            !.channels[c].current = pdm_data'.channels[c].current]

\* C28: in every launch configuration at most one background loop ever
\* writes the store's samples, timestamp and aggregates; the control handlers
\* write only the enable mask and the on/current override of the channel
\* they toggle, and no loop writes the enable mask.
C28_SingleWriter ==
    [][/\ ~(ReaderWrote' /\ MockWrote')
       /\ LoopKeepsMask
       /\ HandlerWritesOverride]_vars

\* ---- claims about lost triggers, under SpecSim ----

\* the trigger file holds a complete message with a registered id
TriggerPending ==
    trigger_file.exists /\ trigger_file.readable /\ trigger_file.content \in ScenarioIds

\* C29: no trigger is lost under any interleaving of the control surface's
\* write with the producer's read-then-remove.  A message can only be read
\* while the file holds it, so: the handler's write leaves its message in the
\* file, and a message leaves the file only in the step of the tick that
\* activates its scenario.
C29_NoTriggerLost ==
    [][/\ (reqPc = "trigger_dump" /\ reqPc' = "idle") =>
             trigger_file' = FileWith(reqArg.scenario_id)
       /\ (TriggerPending /\ trigger_file' # trigger_file) =>
             /\ simPc = "remove_trigger"
             /\ active_scenario' = trigger_file.content
             /\ scenario_started_at' = now]_vars

====
